---- MODULE Spec2Model ----
(***************************************************************************)
(* piecer: a USB extraction tool for the P/ECE handheld (src/main.rs).     *)
(*                                                                         *)
(* The model is the program run as a state machine.  One step is one bulk  *)
(* transfer (write_bulk or read_bulk) together with the local computation  *)
(* that follows it, or one local step of a loop body.  The device is a     *)
(* byte-addressable memory Mem(dev, a) that answers read-memory commands.  *)
(***************************************************************************)
EXTENDS Integers, Sequences, FiniteSets, TLC

VARIABLES
    dev,          \* the device: what its memory and its responses hold
    cmd,          \* the command line: [op, file]
    pc,           \* position of the program
    stack,        \* return positions of the calls in progress
    err,          \* why the process panicked ("" while it has not)
    pffs_top,     \* Piece.pffs_top
    gm,           \* get_memory frame: addr, len, bytes_left, data (buffer name)
    bufs,         \* the byte buffers: dirent_raw, clusters_raw, data, line
    directory,    \* ls: the Vec<DirEnt> being built / returned
    i,            \* ls: loop index
    dl,           \* download frame: filename, cluster, data_left
    files,        \* local files created, in creation order: [name, bytes]
    bk,           \* backup loop: the entries iterated, and the position
    shot,         \* get_screenshot frame: lcd_addr, y, rows printed
    stdout,       \* lines printed by ls / backup
    wire          \* history of the bulk endpoint (observation only)

vars == <<dev, cmd, pc, stack, err, pffs_top, gm, bufs, directory, i, dl,
          files, bk, shot, stdout, wire>>

----------------------------------------------------------------------------
(* Program constants *)

ChunkMax       == 32       \* bytes_left.min(32)
SlotSize       == 32       \* one directory slot
LastSlotExcl   == 96       \* for i in 1..96
FatSlot        == 97       \* pffs_top + 97 * 32
FatEntries     == 496      \* [0; 496*2]
ClusterSize    == 4096
Sentinel       == 32768    \* 0x8000
LcdWidth       == 128
LcdHeight      == 88
NameLen        == 24
VersionLen     == 32
LcdDataLen     == 12

(* Bounds of the model *)

MaxLen         == 70       \* get_memory alone: len ranges over 0..MaxLen
MaxClusters    == 3        \* data clusters one download may read in the model
MaxShort       == 1        \* short reads the transport may deliver in one run

----------------------------------------------------------------------------
(* Bytes and little-endian integers *)

Min(a, b) == IF a < b THEN a ELSE b

Zeros(n) == [k \in 1..n |-> 0]

\* u32::to_le_bytes
ToLe32(x) ==
    << x % 256, (x \div 256) % 256, (x \div 65536) % 256, (x \div 16777216) % 256 >>

\* u16::to_le_bytes (the device stores the chain table and the slots so)
ToLe16(x) == << x % 256, (x \div 256) % 256 >>

FromLe32Swapped(b) == b[4] + 256 * b[3] + 65536 * b[2] + 16777216 * b[1]

\* u32::from_le_bytes
FromLe32(b) == b[1] + 256 * b[2] + 65536 * b[3] + 16777216 * b[4]

\* u16::from_le_bytes
FromLe16(b) == b[1] + 256 * b[2]

\* &s[from..to] with 0-based, end-exclusive Rust indices
Slice(s, from, to) == SubSeq(s, from + 1, to)

----------------------------------------------------------------------------
(* The device: a P/ECE whose flash holds a PFFS master block at dev.top.   *)
(*   dev.top  : the value the identify response carries at offset 24       *)
(*   dev.ents : the occupied 32-byte slots, [slot, name, cluster, len]     *)
(*   dev.fat  : the chain-table entries that differ from 0xFFFF, <<k, v>>  *)
(*   dev.lcd  : the display descriptor [w, h, addr]                        *)

PadName(name) == name \o Zeros(NameLen - Len(name))

\* A slot no entry occupies: first byte 0x00 (even slots) or 0xFF (odd
\* slots), the other bytes those of a stale entry.
EmptySlot(s) ==
    << IF s % 2 = 0 THEN 0 ELSE 255 >> \o [k \in 1..(NameLen - 1) |-> 69]
        \o << 1, 0 >> \o ToLe16(1) \o ToLe32(5)

EntBytes(e) ==
    PadName(e.name) \o << 1, 0 >> \o ToLe16(e.cluster) \o ToLe32(e.len)

SlotBytes(d, s) ==
    IF \E k \in 1..Len(d.ents) : d.ents[k].slot = s
    THEN EntBytes(d.ents[CHOOSE k \in 1..Len(d.ents) : d.ents[k].slot = s])
    ELSE EmptySlot(s)

FatVal(d, c) ==
    IF \E k \in 1..Len(d.fat) : d.fat[k][1] = c
    THEN d.fat[CHOOSE k \in 1..Len(d.fat) : d.fat[k][1] = c][2]
    ELSE 65535

DataByte(a) == a % 251

\* The byte of device memory at address a
Mem(d, a) ==
    LET off == a - d.top IN
    IF off >= 0 /\ off < FatSlot * SlotSize
    THEN SlotBytes(d, off \div SlotSize)[(off % SlotSize) + 1]
    ELSE IF off >= FatSlot * SlotSize /\ off < FatSlot * SlotSize + FatEntries * 2
    THEN ToLe16(FatVal(d, (off - FatSlot * SlotSize) \div 2))
             [((off - FatSlot * SlotSize) % 2) + 1]
    ELSE DataByte(a)

\* Device memory a .. a+n-1 as a byte sequence
MemRange(d, a, n) == [k \in 1..n |-> Mem(d, a + k - 1)]

\* The 32-byte identify response: pffs_top at offset 24
Version(d) ==
    [k \in 1..24 |-> 100 + k] \o ToLe32(d.top) \o << 1, 2, 3, 4 >>

\* The 12-byte display descriptor: width at 2, height at 4, address at 8
LcdData(d) ==
    << 1, 0, d.lcd.w, 0, d.lcd.h, 0, 2, 0 >> \o ToLe32(d.lcd.addr)

\* What the device sends on the IN endpoint after it received `command`
Respond(d, command) ==
    CASE command = << 0, 32 >> -> Version(d)
      [] command = << 17 >>    -> LcdData(d)
      [] command[1] = 2        ->
             MemRange(d, FromLe32(Slice(command, 1, 5)),
                         FromLe32(Slice(command, 5, 9)))
      [] OTHER                 -> << >>

----------------------------------------------------------------------------
(* The bulk endpoints *)

IsWrite(w1, w2) == w2.nWrites = w1.nWrites + 1
IsRead(w1, w2)  == w2.nReads = w1.nReads + 1

\* write_bulk(0x02, command) returned Ok
WireWrite(w, command) ==
    [w EXCEPT !.last = command, !.lastIO = "write", !.nWrites = @ + 1,
              !.pauses     = @ + (IF command = << 16, 1 >> THEN 1 ELSE 0),
              !.resumes    = @ + (IF command = << 16, 0 >> THEN 1 ELSE 0),
              !.identifies = @ + (IF command = << 0, 32 >> THEN 1 ELSE 0)]

\* read_bulk(0x82, ..) returned Ok
WireRead(w) == [w EXCEPT !.lastIO = "read", !.nReads = @ + 1]

\* read_bulk returned Ok(n) with n below the length of the response asked for
WireReadShort(w) == [WireRead(w) EXCEPT !.shorts = @ + 1]

\* the lengths a short read of an n-byte response may have in the model
ShortLens(n) == { m \in { 0, n - 1 } : m >= 0 /\ m < n }

\* call / return
Call(target, ret) == pc' = target /\ stack' = << ret >> \o stack
Return            == pc' = Head(stack) /\ stack' = Tail(stack)

Panic(why) == pc' = "panic" /\ err' = why

----------------------------------------------------------------------------
(* Piece::get_memory, main.rs 55-69 *)

GmFrame(addr, len, buf) ==
    [addr |-> addr, len |-> len, bytes_left |-> len, data |-> buf]

BytesToReadFixed(bytes_left) == ChunkMax

\* line 58
BytesToRead(bytes_left) == Min(bytes_left, ChunkMax)

ChunkAddrRunning(addr, len, bytes_left) == addr + bytes_left

\* line 60: addr+len-bytes_left (u32; every address of the model is below
\* 2^31, so no sum wraps)
ChunkAddr(addr, len, bytes_left) == addr + len - bytes_left

\* lines 59-61
ReadCommand(addr, n) == << 2 >> \o ToLe32(addr) \o ToLe32(n)

StoreOffsetZero(len, bytes_left) == 0

\* line 63: &mut data[(len-bytes_left)..]
StoreOffset(len, bytes_left) == len - bytes_left

\* read_bulk into buf[off..]: the bytes received overwrite the slice's start
StoreAt(buf, off, resp) ==
    SubSeq(buf, 1, off) \o resp \o SubSeq(buf, off + Len(resp) + 1, Len(buf))

(* The 2 MiB buffer of the dump is held run-length encoded: a run          *)
(* [kind |-> "zero", n] is n zero bytes, a run [kind |-> "mem", from, n] is *)
(* the n bytes of device memory from .. from+n-1.                          *)

ZeroRun(n)     == [kind |-> "zero", from |-> 0, n |-> n]
MemRun(from, n) == [kind |-> "mem", from |-> from, n |-> n]

RECURSIVE TakeRuns(_, _)
\* the first k bytes of a run-length encoded buffer
TakeRuns(runs, k) ==
    IF k = 0 \/ runs = << >> THEN << >>
    ELSE IF runs[1].n <= k THEN << runs[1] >> \o TakeRuns(Tail(runs), k - runs[1].n)
    ELSE << [runs[1] EXCEPT !.n = k] >>

RECURSIVE DropRuns(_, _)
\* all but the first k bytes
DropRuns(runs, k) ==
    IF k = 0 \/ runs = << >> THEN runs
    ELSE IF runs[1].n <= k THEN DropRuns(Tail(runs), k - runs[1].n)
    ELSE << [runs[1] EXCEPT !.n = @ - k,
                            !.from = IF runs[1].kind = "mem" THEN @ + k ELSE @] >>
         \o Tail(runs)

RECURSIVE MergeRuns(_)
\* adjacent runs that continue one another become one run
MergeRuns(runs) ==
    IF Len(runs) < 2 THEN runs
    ELSE LET a == runs[1]
             b == runs[2]
         IN  IF a.kind = b.kind /\ (a.kind = "zero" \/ a.from + a.n = b.from)
             THEN MergeRuns(<< [a EXCEPT !.n = a.n + b.n] >> \o Tail(Tail(runs)))
             ELSE << a >> \o MergeRuns(Tail(runs))

\* the byte at 0-based offset k of a run-length encoded buffer
ByteAt(d, runs, k) ==
    LET r == DropRuns(runs, k)[1] IN
    IF r.kind = "zero" THEN 0 ELSE Mem(d, r.from)

\* the run that holds the response to a read-memory command: the device
\* answers with the memory at the command's address (Respond)
RunOf(command, resp) == MemRun(FromLe32(Slice(command, 1, 5)), Len(resp))

\* StoreAt on a run-length encoded buffer
StoreRun(runs, off, run) ==
    IF run.n = 0 THEN runs
    ELSE MergeRuns(TakeRuns(runs, off) \o << run >> \o DropRuns(runs, off + run.n))

GmWritePipelined ==
    /\ pc = "gm_write"
    /\ LET bytes_to_read == BytesToRead(gm.bytes_left)
           command == ReadCommand(ChunkAddr(gm.addr, gm.len, gm.bytes_left),
                                  bytes_to_read)
           left == gm.bytes_left - bytes_to_read
       IN  /\ wire' = [WireWrite(wire, command) EXCEPT !.k = @ + 1]
           /\ gm' = [gm EXCEPT !.bytes_left = left]
           /\ IF left = 0 THEN pc' = "gm_read" ELSE pc' = "gm_write"
    /\ UNCHANGED <<dev, cmd, stack, err, pffs_top, bufs, directory, i, dl,
                   files, bk, shot, stdout>>

\* lines 58-62: build the command and write it
GmWrite ==
    /\ pc = "gm_write"
    /\ LET bytes_to_read == BytesToRead(gm.bytes_left)
           command == ReadCommand(ChunkAddr(gm.addr, gm.len, gm.bytes_left),
                                  bytes_to_read)
       IN  wire' = [WireWrite(wire, command) EXCEPT !.k = @ + 1]
    /\ pc' = "gm_read"
    /\ UNCHANGED <<dev, cmd, stack, err, pffs_top, gm, bufs, directory, i, dl,
                   files, bk, shot, stdout>>

\* lines 63-67 once read_bulk returned Ok with the bytes resp (the count it
\* returns is dropped by unwrap()): count down, loop or return
GmReadGot(resp, w) ==
    /\ pc = "gm_read"
    /\ LET bytes_to_read == BytesToRead(gm.bytes_left)
           off  == StoreOffset(gm.len, gm.bytes_left)
           left == gm.bytes_left - bytes_to_read
       IN  /\ bufs' = [bufs EXCEPT ![gm.data] =
                           IF gm.data = "dump"
                           THEN StoreRun(@, off, RunOf(wire.last, resp))
                           ELSE StoreAt(@, off, resp)]
           /\ gm' = [gm EXCEPT !.bytes_left = left]
           /\ wire' = [w EXCEPT !.off = off]
           /\ IF left = 0 THEN Return
                          ELSE pc' = "gm_write" /\ UNCHANGED stack
    /\ UNCHANGED <<dev, cmd, err, pffs_top, directory, i, dl, files, bk, shot,
                   stdout>>

\* lines 63-67: read the response into the buffer, count down, loop or return
GmRead == GmReadGot(Respond(dev, wire.last), WireRead(wire))

\* lines 63-67 when the device delivers fewer bytes than the chunk asked for
GmReadShort ==
    /\ pc = "gm_read"
    /\ wire.shorts < MaxShort
    /\ \E n \in ShortLens(Len(Respond(dev, wire.last))) :
          GmReadGot(SubSeq(Respond(dev, wire.last), 1, n), WireReadShort(wire))

\* get_memory(addr, len, buf) is entered: a new frame
GmCall(addr, len, buf, ret) ==
    /\ gm' = GmFrame(addr, len, buf)
    /\ Call("gm_write", ret)

----------------------------------------------------------------------------
(* Piece::new, main.rs 46-54 *)

\* line 49
NewWrite ==
    /\ pc = "new_write"
    /\ wire' = WireWrite(wire, << 0, 32 >>)
    /\ pc' = "new_read"
    /\ UNCHANGED <<dev, cmd, stack, err, pffs_top, gm, bufs, directory, i, dl,
                   files, bk, shot, stdout>>

\* line 52
TopOfVersionSwapped(version) == FromLe32Swapped(Slice(version, 24, 28))

\* line 52: u32::from_le_bytes(version[24..28])
TopOfVersion(version) == FromLe32(Slice(version, 24, 28))

\* lines 50-53 once read_bulk returned Ok with the bytes resp
NewReadGot(resp, w) ==
    /\ pc = "new_read"
    /\ LET version == StoreAt(Zeros(VersionLen), 0, resp)
       IN  pffs_top' = TopOfVersion(version)
    /\ wire' = w
    /\ pc' = "main"
    /\ UNCHANGED <<dev, cmd, stack, err, gm, bufs, directory, i, dl, files, bk,
                   shot, stdout>>

\* lines 50-53
NewRead == NewReadGot(Respond(dev, wire.last), WireRead(wire))

\* lines 50-53 when fewer than 32 bytes arrive
NewReadShort ==
    /\ pc = "new_read"
    /\ wire.shorts < MaxShort
    /\ \E n \in ShortLens(VersionLen) :
          NewReadGot(SubSeq(Respond(dev, wire.last), 1, n), WireReadShort(wire))

----------------------------------------------------------------------------
(* Piece::ls, main.rs 103-117 *)

RECURSIVE Utf8From(_, _)
\* str::from_utf8(..).is_ok(), from position k (1-based) on
Utf8From(s, k) ==
    LET n == Len(s)
        b == s[k]
        Cont(j, lo, hi) == j <= n /\ s[j] >= lo /\ s[j] <= hi
    IN  IF k > n THEN TRUE
        ELSE IF b < 128 THEN Utf8From(s, k + 1)
        ELSE IF b >= 194 /\ b <= 223
             THEN Cont(k + 1, 128, 191) /\ Utf8From(s, k + 2)
        ELSE IF b = 224
             THEN Cont(k + 1, 160, 191) /\ Cont(k + 2, 128, 191) /\ Utf8From(s, k + 3)
        ELSE IF (b >= 225 /\ b <= 236) \/ b = 238 \/ b = 239
             THEN Cont(k + 1, 128, 191) /\ Cont(k + 2, 128, 191) /\ Utf8From(s, k + 3)
        ELSE IF b = 237
             THEN Cont(k + 1, 128, 159) /\ Cont(k + 2, 128, 191) /\ Utf8From(s, k + 3)
        ELSE IF b = 240
             THEN Cont(k + 1, 144, 191) /\ Cont(k + 2, 128, 191)
                  /\ Cont(k + 3, 128, 191) /\ Utf8From(s, k + 4)
        ELSE IF b >= 241 /\ b <= 243
             THEN Cont(k + 1, 128, 191) /\ Cont(k + 2, 128, 191)
                  /\ Cont(k + 3, 128, 191) /\ Utf8From(s, k + 4)
        ELSE IF b = 244
             THEN Cont(k + 1, 128, 143) /\ Cont(k + 2, 128, 191)
                  /\ Cont(k + 3, 128, 191) /\ Utf8From(s, k + 4)
        ELSE FALSE

IsUtf8(s) == Utf8From(s, 1)

\* str::trim_matches(char::from(0)): NUL characters are removed from both
\* ends; a String is held as its UTF-8 bytes
TrimNul(s) ==
    LET nz == {k \in 1..Len(s) : s[k] # 0} IN
    IF nz = {} THEN << >>
    ELSE SubSeq(s, CHOOSE k \in nz : \A m \in nz : k <= m,
                   CHOOSE k \in nz : \A m \in nz : k >= m)

SlotAddrFromZero(top, n) == top + (n - 1) * SlotSize

\* line 107: self.pffs_top + i * 32
SlotAddr(top, n) == top + n * SlotSize

SlotUsedNotZero(raw) == raw[1] # 0

\* line 108
SlotUsed(raw) == raw[1] # 0 /\ raw[1] # 255

\* lines 109-112
DecodeDirEnt(raw) ==
    [name    |-> TrimNul(Slice(raw, 0, NameLen)),
     cluster |-> FromLe16(Slice(raw, 26, 28)),
     len     |-> FromLe32(Slice(raw, 28, 32))]

\* ls() is entered
LsCall(ret) ==
    /\ directory' = << >>
    /\ i' = 1
    /\ Call("ls_loop", ret)

\* lines 105-107 and 116: next slot, or return the directory
LsIter ==
    /\ pc = "ls_loop"
    /\ IF i < LastSlotExcl
       THEN /\ bufs' = [bufs EXCEPT !.dirent_raw = Zeros(SlotSize)]
            /\ GmCall(SlotAddr(pffs_top, i), SlotSize, "dirent_raw", "ls_decode")
            /\ wire' = [wire EXCEPT !.k = 0,
                                    !.slots = Append(@, SlotAddr(pffs_top, i))]
       ELSE /\ Return
            /\ UNCHANGED <<gm, bufs, wire>>
    /\ UNCHANGED <<dev, cmd, err, pffs_top, directory, i, dl, files, bk, shot,
                   stdout>>

\* lines 108-114
LsDecode ==
    /\ pc = "ls_decode"
    /\ LET raw == bufs.dirent_raw IN
       IF SlotUsed(raw)
       THEN IF IsUtf8(Slice(raw, 0, NameLen))
            THEN /\ directory' = Append(directory, DecodeDirEnt(raw))
                 /\ i' = i + 1
                 /\ pc' = "ls_loop"
                 /\ UNCHANGED err
            ELSE /\ Panic("utf8")
                 /\ UNCHANGED <<directory, i>>
       ELSE /\ i' = i + 1
            /\ pc' = "ls_loop"
            /\ UNCHANGED <<directory, err>>
    /\ UNCHANGED <<dev, cmd, stack, pffs_top, gm, bufs, dl, files, bk, shot,
                   stdout, wire>>

----------------------------------------------------------------------------
(* Piece::download, main.rs 118-138 *)

FatAddrAfterDir(top) == top + LastSlotExcl * SlotSize

\* line 120: self.pffs_top + 97 * 32
FatAddr(top) == top + FatSlot * SlotSize

ClusterAddrFromZero(top, cluster) ==
    top + FatSlot * SlotSize + FatEntries * 2 + cluster * ClusterSize

\* line 130: pffs_top + 97 * 32 + 496 * 2 + cluster * 4096 - 4096
ClusterAddr(top, cluster) ==
    top + FatSlot * SlotSize + FatEntries * 2 + cluster * ClusterSize - ClusterSize

IsTerminalGe(next) == next >= Sentinel

\* line 134
IsTerminal(next) == next > Sentinel

\* lines 134-136: the loop's only exit
LoopStops(next, data_left) == IsTerminal(next)

\* ASCII lower case of a name
Lower(s) == [k \in 1..Len(s) |-> IF s[k] >= 65 /\ s[k] <= 90 THEN s[k] + 32 ELSE s[k]]

FindNoCase(dir, filename) ==
    LET m == {k \in 1..Len(dir) : Lower(dir[k].name) = Lower(filename)} IN
    IF m = {} THEN 0 ELSE CHOOSE k \in m : \A j \in m : k <= j

\* lines 122-124: index of the first entry of that name, 0 when there is none
Find(dir, filename) ==
    LET m == {k \in 1..Len(dir) : dir[k].name = filename} IN
    IF m = {} THEN 0 ELSE CHOOSE k \in m : \A j \in m : k <= j

\* File::create: a new empty file of that name replaces any older one
CreateFile(fs, name) ==
    SelectSeq(fs, LAMBDA f : f.name # name) \o << [name |-> name, bytes |-> << >>] >>

\* file.write_all on the file created last
WriteAll(fs, bytes) == [fs EXCEPT ![Len(fs)].bytes = @ \o bytes]

\* download(filename) is entered
DlCall(filename, ret) ==
    /\ dl' = [filename |-> filename, cluster |-> 0, data_left |-> 0]
    /\ Call("dl_start", ret)

\* lines 119-120
DlStart ==
    /\ pc = "dl_start"
    /\ bufs' = [bufs EXCEPT !.clusters_raw = Zeros(FatEntries * 2)]
    /\ GmCall(FatAddr(pffs_top), FatEntries * 2, "clusters_raw", "dl_ls")
    /\ wire' = [wire EXCEPT !.k = 0, !.clusters = << >>, !.slots = << >>,
                            !.table = FatAddr(pffs_top), !.heads = << >>]
    /\ UNCHANGED <<dev, cmd, err, pffs_top, directory, i, dl, files, bk, shot,
                   stdout>>

\* line 121
DlLs ==
    /\ pc = "dl_ls"
    /\ LsCall("dl_find")
    /\ UNCHANGED <<dev, cmd, err, pffs_top, gm, bufs, dl, files, bk, shot,
                   stdout, wire>>

\* lines 122-127
DlFind ==
    /\ pc = "dl_find"
    /\ LET k == Find(directory, dl.filename) IN
       IF k = 0
       THEN /\ Panic("notfound")
            /\ UNCHANGED <<dl, files>>
       ELSE /\ files' = CreateFile(files, directory[k].name)
            /\ dl' = [dl EXCEPT !.cluster = directory[k].cluster,
                                !.data_left = directory[k].len]
            /\ pc' = "dl_loop"
            /\ UNCHANGED err
    /\ UNCHANGED <<dev, cmd, stack, pffs_top, gm, bufs, directory, i, bk, shot,
                   stdout, wire>>

\* lines 129-130: one more data cluster (the model follows a chain for
\* MaxClusters clusters at most)
DlLoop ==
    /\ pc = "dl_loop"
    /\ Len(wire.clusters) < MaxClusters
    /\ bufs' = [bufs EXCEPT !.data = Zeros(ClusterSize)]
    /\ GmCall(ClusterAddr(pffs_top, dl.cluster), ClusterSize, "data", "dl_write")
    /\ wire' = [wire EXCEPT !.k = 0,
                            !.clusters = Append(@, ClusterAddr(pffs_top, dl.cluster)),
                            !.heads = Append(@, << dl.cluster, dl.data_left >>)]
    /\ UNCHANGED <<dev, cmd, err, pffs_top, directory, i, dl, files, bk, shot,
                   stdout>>

\* lines 131-137
DlWrite ==
    /\ pc = "dl_write"
    /\ LET n    == Min(dl.data_left, ClusterSize)
           left == dl.data_left - n
           at   == dl.cluster * 2
       IN  /\ files' = WriteAll(files, Slice(bufs.data, 0, n))
           /\ IF at + 2 > Len(bufs.clusters_raw)
              THEN /\ Panic("index")
                   /\ dl' = [dl EXCEPT !.data_left = left]
                   /\ UNCHANGED stack
              ELSE LET next == FromLe16(Slice(bufs.clusters_raw, at, at + 2)) IN
                   /\ dl' = [dl EXCEPT !.data_left = left, !.cluster = next]
                   /\ IF LoopStops(next, left)
                      THEN Return
                      ELSE pc' = "dl_loop" /\ UNCHANGED stack
                   /\ UNCHANGED err
    /\ UNCHANGED <<dev, cmd, pffs_top, gm, bufs, directory, i, bk, shot, stdout,
                   wire>>

----------------------------------------------------------------------------
(* Piece::get_screenshot, pause, resume, main.rs 70-102 *)

\* lines 91-97: 3 -> " ", 2 -> light, 1 -> medium, 0 -> dark, other -> "X"
Glyph(p) ==
    CASE p = 3 -> " " [] p = 2 -> "light" [] p = 1 -> "medium" [] p = 0 -> "dark"
      [] OTHER -> "X"

\* lines 77 and 70-72: pause()
ShotPause ==
    /\ pc = "shot_pause"
    /\ wire' = [WireWrite(wire, << 16, 1 >>) EXCEPT !.rows = << >>]
    /\ pc' = "shot_query"
    /\ UNCHANGED <<dev, cmd, stack, err, pffs_top, gm, bufs, directory, i, dl,
                   files, bk, shot, stdout>>

\* line 78
ShotQuery ==
    /\ pc = "shot_query"
    /\ wire' = WireWrite(wire, << 17 >>)
    /\ pc' = "shot_lcd"
    /\ UNCHANGED <<dev, cmd, stack, err, pffs_top, gm, bufs, directory, i, dl,
                   files, bk, shot, stdout>>

SizeOkWidthOnly(lcd_data) == lcd_data[3] = LcdWidth

\* lines 82-85: both assert_eq! pass
SizeOk(lcd_data) == lcd_data[3] = LcdWidth /\ lcd_data[5] = LcdHeight

\* lines 79-86 once read_bulk returned Ok with the bytes resp
ShotLcdDataGot(resp, w) ==
    /\ pc = "shot_lcd"
    /\ wire' = w
    /\ LET lcd_data == StoreAt(Zeros(LcdDataLen), 0, resp) IN
       IF SizeOk(lcd_data)
       THEN /\ shot' = [lcd_addr |-> FromLe32(Slice(lcd_data, 8, 12)),
                        y |-> 0, glyphs |-> << >>]
            /\ pc' = "shot_row"
            /\ UNCHANGED err
       ELSE /\ Panic("assert")
            /\ UNCHANGED shot
    /\ UNCHANGED <<dev, cmd, stack, pffs_top, gm, bufs, directory, i, dl,
                   files, bk, stdout>>

\* lines 79-86
ShotLcdData == ShotLcdDataGot(Respond(dev, wire.last), WireRead(wire))

\* lines 79-86 when fewer than 12 bytes arrive
ShotLcdDataShort ==
    /\ pc = "shot_lcd"
    /\ wire.shorts < MaxShort
    /\ \E n \in ShortLens(LcdDataLen) :
          ShotLcdDataGot(SubSeq(Respond(dev, wire.last), 1, n), WireReadShort(wire))

\* lines 87-89: the next row, or leave the loop
RowAddrNoStride(lcd_addr, y) == lcd_addr + y

\* line 88: lcd_addr + y * 128
RowAddr(lcd_addr, y) == lcd_addr + y * LcdWidth

\* lines 87-89: the next row, or the end of the loop
ShotRow ==
    /\ pc = "shot_row"
    /\ IF shot.y < LcdHeight
       THEN /\ bufs' = [bufs EXCEPT !.line = Zeros(LcdWidth)]
            /\ GmCall(RowAddr(shot.lcd_addr, shot.y), LcdWidth, "line",
                      "shot_print")
            /\ wire' = [wire EXCEPT !.k = 0,
                            !.rows = Append(@, RowAddr(shot.lcd_addr, shot.y))]
       ELSE /\ pc' = "shot_resume"
            /\ UNCHANGED <<stack, gm, bufs, wire>>
    /\ UNCHANGED <<dev, cmd, err, pffs_top, directory, i, dl, files, bk, shot,
                   stdout>>

\* lines 90-99: print the row
ShotPrint ==
    /\ pc = "shot_print"
    /\ shot' = [shot EXCEPT !.y = @ + 1,
                            !.glyphs = [k \in 1..LcdWidth |-> Glyph(bufs.line[k])]]
    /\ pc' = "shot_row"
    /\ UNCHANGED <<dev, cmd, stack, err, pffs_top, gm, bufs, directory, i, dl,
                   files, bk, stdout, wire>>

\* lines 101 and 73-75: resume()
ShotResume ==
    /\ pc = "shot_resume"
    /\ wire' = WireWrite(wire, << 16, 0 >>)
    /\ Return
    /\ UNCHANGED <<dev, cmd, err, pffs_top, gm, bufs, directory, i, dl, files,
                   bk, shot, stdout>>

----------------------------------------------------------------------------
(* main, main.rs 141-169 *)

\* lines 145-146
MainLs ==
    /\ pc = "main" /\ cmd.op = "ls"
    /\ LsCall("main_ls_print")
    /\ UNCHANGED <<dev, cmd, err, pffs_top, gm, bufs, dl, files, bk, shot,
                   stdout, wire>>

\* lines 146-148
MainLsPrint ==
    /\ pc = "main_ls_print"
    /\ stdout' = [k \in 1..Len(directory) |->
                     << directory[k].name, directory[k].len >>]
    /\ pc' = "done"
    /\ UNCHANGED <<dev, cmd, stack, err, pffs_top, gm, bufs, directory, i, dl,
                   files, bk, shot, wire>>

\* lines 150-152
MainScreenshot ==
    /\ pc = "main" /\ cmd.op = "screenshot"
    /\ Call("shot_pause", "done")
    /\ UNCHANGED <<dev, cmd, err, pffs_top, gm, bufs, directory, i, dl, files,
                   bk, shot, stdout, wire>>

\* lines 153-155
MainDownload ==
    /\ pc = "main" /\ cmd.op = "download"
    /\ DlCall(cmd.file, "done")
    /\ UNCHANGED <<dev, cmd, err, pffs_top, gm, bufs, directory, i, files, bk,
                   shot, stdout, wire>>

\* line 158: let mut dump = [0; 2097152]
DumpBufLen == 2097152
\* line 159: get_memory(0xc00000, 2097142, ..)
DumpAddr   == 12582912
DumpLen    == 2097142
DumpName   == << 100, 117, 109, 112, 46, 105, 109, 103 >>     \* "dump.img"

\* lines 157-159: create dump.img, zero the buffer, call get_memory
MainDump ==
    /\ pc = "main" /\ cmd.op = "dump"
    /\ files' = CreateFile(files, DumpName)
    /\ bufs' = [bufs EXCEPT !.dump = << ZeroRun(DumpBufLen) >>]
    /\ GmCall(DumpAddr, DumpLen, "dump", "dump_write")
    /\ wire' = [wire EXCEPT !.k = 0]
    /\ UNCHANGED <<dev, cmd, err, pffs_top, directory, i, dl, bk, shot, stdout>>

\* line 160: file.write_all(&dump); the file keeps the buffer's encoding
MainDumpWrite ==
    /\ pc = "dump_write"
    /\ files' = WriteAll(files, bufs.dump)
    /\ pc' = "done"
    /\ UNCHANGED <<dev, cmd, stack, err, pffs_top, gm, bufs, directory, i, dl, bk,
                   shot, stdout, wire>>

\* line 163: piece.ls()
MainBackup ==
    /\ pc = "main" /\ cmd.op = "backup"
    /\ LsCall("bk_take")
    /\ UNCHANGED <<dev, cmd, err, pffs_top, gm, bufs, dl, files, bk, shot,
                   stdout, wire>>

\* line 163: the for loop takes the Vec that ls returned
BkTake ==
    /\ pc = "bk_take"
    /\ bk' = [dir |-> directory, idx |-> 1]
    /\ pc' = "bk_loop"
    /\ UNCHANGED <<dev, cmd, stack, err, pffs_top, gm, bufs, directory, i, dl,
                   files, shot, stdout, wire>>

\* lines 163-166
BkLoop ==
    /\ pc = "bk_loop"
    /\ IF bk.idx <= Len(bk.dir)
       THEN /\ stdout' = Append(stdout, bk.dir[bk.idx].name)
            /\ bk' = [bk EXCEPT !.idx = @ + 1]
            /\ DlCall(bk.dir[bk.idx].name, "bk_loop")
       ELSE /\ pc' = "done"
            /\ UNCHANGED <<stack, dl, bk, stdout>>
    /\ UNCHANGED <<dev, cmd, err, pffs_top, gm, bufs, directory, i, files, shot,
                   wire>>

----------------------------------------------------------------------------
(* The transport: every write_bulk / read_bulk result is unwrap()ped, so an *)
(* Err (I/O fault, timeout) panics the process where it stands.             *)

IoPcs == {"new_write", "new_read", "gm_write", "gm_read",
          "shot_pause", "shot_query", "shot_lcd", "shot_resume"}

TransportFailIgnored ==
    /\ pc \in IoPcs
    /\ err = ""
    /\ err' = "transport"
    /\ UNCHANGED <<dev, cmd, pc, stack, pffs_top, gm, bufs, directory, i, dl,
                   files, bk, shot, stdout, wire>>

\* an Err from write_bulk / read_bulk: unwrap() panics
TransportFail ==
    /\ pc \in IoPcs
    /\ Panic("transport")
    /\ UNCHANGED <<dev, cmd, stack, pffs_top, gm, bufs, directory, i, dl, files,
                   bk, shot, stdout, wire>>

----------------------------------------------------------------------------
(* The runs explored *)

NameA      == << 65, 46, 84, 88, 84 >>        \* "A.TXT"
NameLowerA == << 97, 46, 116, 120, 116 >>     \* "a.txt"
NameB      == << 66 >>                        \* "B"
NameC      == << 67, 46, 80 >>                \* "C.P"

Tops == { 12718080 }                          \* 0x00C21000

Lcd(w, h) == [w |-> w, h |-> h, addr |-> 1050624]     \* 0x100800

\* What lies in the 32 bytes before slot 1 and after slot 95: never a slot
\* of ls, whatever they hold
Edge(s) == [slot |-> s, name |-> << 72 + s >>, cluster |-> 9, len |-> 1]

\* A.TXT in slot 2 with first cluster c and length L; B in slot 95;
\* chain[c] = n1, chain[2] = n2, chain[5] = 0x8001
DevFs(top, c, L, n1, n2) ==
    [top  |-> top,
     ents |-> << Edge(0),
                 [slot |-> 2, name |-> NameA, cluster |-> c, len |-> L],
                 [slot |-> 95, name |-> NameB, cluster |-> 4, len |-> 3],
                 Edge(96) >>,
     fat  |-> << << c, n1 >>, << 2, n2 >>, << 5, 32769 >> >>,
     lcd  |-> Lcd(LcdWidth, LcdHeight)]

\* Directories of several shapes: deleted slots that still hold a name, a
\* name that is not UTF-8, every slot in use
DevDir(top, kind) ==
    [top  |-> top,
     ents |->
        CASE kind = "deleted" ->
               << Edge(0),
                  [slot |-> 1, name |-> NameA, cluster |-> 1, len |-> 10],
                  [slot |-> 3, name |-> << 0, 66, 67 >>, cluster |-> 6, len |-> 2],
                  [slot |-> 4, name |-> << 255, 66 >>, cluster |-> 7, len |-> 2],
                  [slot |-> 50, name |-> NameC, cluster |-> 2, len |-> 4097],
                  [slot |-> 95, name |-> NameB, cluster |-> 4, len |-> 3],
                  Edge(96) >>
          [] kind = "badutf8" ->
               << Edge(0),
                  [slot |-> 1, name |-> NameA, cluster |-> 1, len |-> 10],
                  [slot |-> 7, name |-> << 66, 128 >>, cluster |-> 6, len |-> 2],
                  Edge(96) >>
          [] kind = "nul" ->
               << Edge(0),
                  [slot |-> 1, name |-> << 65, 0, 66 >>, cluster |-> 1, len |-> 10],
                  [slot |-> 2, name |-> NameB, cluster |-> 4, len |-> 3],
                  Edge(96) >>
          [] kind = "dup" ->
               << Edge(0),
                  [slot |-> 1, name |-> NameA, cluster |-> 1, len |-> 10],
                  [slot |-> 3, name |-> NameA, cluster |-> 5, len |-> 7],
                  Edge(96) >>
          [] kind = "full" ->
               [k \in 1..97 |->
                  [slot |-> k - 1, name |-> << 65 + ((k - 1) % 26), 48 + ((k - 1) \div 26) >>,
                   cluster |-> k, len |-> k]]
          [] OTHER -> << Edge(0), Edge(96) >>,
     fat  |-> << << 2, 3 >> >>,
     lcd  |-> Lcd(LcdWidth, LcdHeight)]

DevLcd(top, w, h) ==
    [top |-> top, ents |-> << Edge(0), Edge(96) >>, fat |-> << >>, lcd |-> Lcd(w, h)]

FirstClusters == { 1, 3 }
Lens          == { 0, 10, 4096, 5000 }
\* <<chain[first cluster], chain[2]>>
ChainCases    == { << 36864, 65535 >>, << 32769, 65535 >>, << 32768, 65535 >>,
                   << 2, 65535 >>, << 2, 5 >> }

DownloadRuns ==
    { << [op |-> "download", file |-> NameA], DevFs(t, c, L, n[1], n[2]) >> :
        t \in Tops, c \in FirstClusters, L \in Lens, n \in ChainCases }
    \cup
    { << [op |-> "download", file |-> f], DevDir(t, "deleted") >> :
        t \in Tops, f \in { NameLowerA, NameB, << 66, 67 >> } }
    \cup
    { << [op |-> "download", file |-> NameA], DevFs(t, 1, 10, 1, 65535) >> :
        t \in Tops }

LsRuns ==
    { << [op |-> "ls", file |-> << >>], DevDir(t, k) >> :
        t \in Tops, k \in { "deleted", "badutf8", "nul", "full", "empty" } }

ScreenshotRuns ==
    { << [op |-> "screenshot", file |-> << >>], DevLcd(t, w, h) >> :
        t \in Tops, w \in { LcdWidth, 127 }, h \in { LcdHeight, 87 } }

BackupRuns ==
    { << [op |-> "backup", file |-> << >>], d >> :
        d \in { DevDir(t, k) : t \in Tops, k \in { "deleted", "dup" } }
              \cup { DevFs(t, 1, 5000, 2, 65535) : t \in Tops } }

Runs == DownloadRuns \cup LsRuns \cup ScreenshotRuns \cup BackupRuns

NoWire ==
    [last |-> << >>, lastIO |-> "none", nWrites |-> 0, nReads |-> 0,
     pauses |-> 0, resumes |-> 0, identifies |-> 0,
     k |-> 0, off |-> 0, slots |-> << >>, clusters |-> << >>, rows |-> << >>,
     shorts |-> 0, table |-> 0, heads |-> << >>]

NoBufs ==
    [dirent_raw |-> << >>, clusters_raw |-> << >>, data |-> << >>, line |-> << >>,
     dump |-> << >>]

\* Locals that no call has set yet
Idle ==
    /\ err = ""
    /\ directory = << >>
    /\ i = 0
    /\ dl = [filename |-> << >>, cluster |-> 0, data_left |-> 0]
    /\ files = << >>
    /\ bk = [dir |-> << >>, idx |-> 0]
    /\ shot = [lcd_addr |-> 0, y |-> 0, glyphs |-> << >>]
    /\ stdout = << >>
    /\ wire = NoWire

\* The process has parsed its command line and is about to run Piece::new
Init ==
    /\ \E r \in Runs : cmd = r[1] /\ dev = r[2]
    /\ pc = "new_write"
    /\ stack = << >>
    /\ pffs_top = 0
    /\ gm = GmFrame(0, 0, "data")
    /\ bufs = NoBufs
    /\ Idle

Next ==
    \/ NewWrite \/ NewRead
    \/ GmWrite \/ GmRead
    \/ LsIter \/ LsDecode
    \/ DlStart \/ DlLs \/ DlFind \/ DlLoop \/ DlWrite
    \/ ShotPause \/ ShotQuery \/ ShotLcdData \/ ShotRow \/ ShotPrint \/ ShotResume
    \/ MainLs \/ MainLsPrint \/ MainScreenshot \/ MainDownload
    \/ MainBackup \/ BkTake \/ BkLoop
    \/ TransportFail

Spec == Init /\ [][Next]_vars

----------------------------------------------------------------------------
(* get_memory alone, on every length 0..MaxLen *)

GmAddrs == { 12718080 + 4096, 12718080 + 4096 + 7 }
GmPads  == { 0, 10 }

\* a caller has just entered get_memory(addr, len, &mut data) with a zeroed
\* buffer of len + pad bytes
InitGM ==
    /\ dev \in { DevFs(t, 1, 10, 36864, 65535) : t \in Tops }
    /\ cmd = [op |-> "get_memory", file |-> << >>]
    /\ pc = "gm_write"
    /\ stack = << "done" >>
    /\ pffs_top = dev.top
    /\ Idle
    /\ \E a \in GmAddrs, n \in 0..MaxLen, pad \in GmPads :
          /\ gm = GmFrame(a, n, "data")
          /\ bufs = [NoBufs EXCEPT !.data = Zeros(n + pad)]

NextGM == GmWrite \/ GmRead \/ TransportFail

SpecGM == InitGM /\ [][NextGM]_vars

----------------------------------------------------------------------------
(* ls and screenshot over a transport that may deliver a short read *)

ShortRuns ==
    { << [op |-> "ls", file |-> << >>], DevDir(t, "deleted") >> : t \in Tops }
    \cup
    { << [op |-> "screenshot", file |-> << >>], DevLcd(t, 127, LcdHeight) >> :
        t \in Tops }

InitShort ==
    /\ \E r \in ShortRuns : cmd = r[1] /\ dev = r[2]
    /\ pc = "new_write"
    /\ stack = << >>
    /\ pffs_top = 0
    /\ gm = GmFrame(0, 0, "data")
    /\ bufs = NoBufs
    /\ Idle

NextShort ==
    \/ NewWrite \/ NewRead \/ NewReadShort
    \/ GmWrite \/ GmRead \/ GmReadShort
    \/ LsIter \/ LsDecode
    \/ ShotPause \/ ShotQuery \/ ShotLcdData \/ ShotLcdDataShort
    \/ MainLs \/ MainLsPrint \/ MainScreenshot
    \/ TransportFail

SpecShort == InitShort /\ [][NextShort]_vars

----------------------------------------------------------------------------
(* dump: the whole 2,097,142-byte transfer, 65,536 read-memory commands *)

InitDump ==
    /\ cmd = [op |-> "dump", file |-> << >>]
    /\ dev \in { DevFs(t, 1, 10, 36864, 65535) : t \in Tops }
                  \cup { DevDir(t, "deleted") : t \in Tops }
    /\ pc = "new_write"
    /\ stack = << >>
    /\ pffs_top = 0
    /\ gm = GmFrame(0, 0, "data")
    /\ bufs = NoBufs
    /\ Idle

NextDump ==
    \/ NewWrite \/ NewRead
    \/ MainDump \/ MainDumpWrite
    \/ GmWrite \/ GmRead
    \/ TransportFail

SpecDump == InitDump /\ [][NextDump]_vars

----------------------------------------------------------------------------
(* What the device holds, read off dev directly (not through the program)  *)

RECURSIVE TrueDirFrom(_, _)
\* the entries of slots s..95 that are in use, in slot order
TrueDirFrom(d, s) ==
    IF s > 95 THEN << >>
    ELSE LET m == {k \in 1..Len(d.ents) : d.ents[k].slot = s} IN
         (IF m # {} /\ (LET e == d.ents[CHOOSE k \in m : TRUE] IN
                          e.name[1] # 0 /\ e.name[1] # 255)
          THEN LET e == d.ents[CHOOSE k \in m : TRUE] IN
               << [name |-> e.name, cluster |-> e.cluster, len |-> e.len] >>
          ELSE << >>) \o TrueDirFrom(d, s + 1)

TrueDir(d) == TrueDirFrom(d, 1)

\* the occupied slots 1..95 of name f
Named(d, f) ==
    {k \in 1..Len(d.ents) :
        /\ d.ents[k].slot >= 1 /\ d.ents[k].slot <= 95
        /\ d.ents[k].name[1] # 0 /\ d.ents[k].name[1] # 255
        /\ d.ents[k].name = f}

HasEntry(d, f) == Named(d, f) # {}

\* the first entry of name f, in slot order
Target(d, f) ==
    d.ents[CHOOSE k \in Named(d, f) :
              \A j \in Named(d, f) : d.ents[k].slot <= d.ents[j].slot]

RECURSIVE ChainNth(_, _, _)
\* the j-th cluster of the chain that starts at c (j = 0 is c itself)
ChainNth(d, c, j) == IF j = 0 THEN c ELSE FatVal(d, ChainNth(d, c, j - 1))

ClustersNeeded(L) == (L + 4095) \div 4096

\* the chain from c has ClustersNeeded(L) clusters, all of them entries of
\* the 496-entry table
ChainCovers(d, c, L) ==
    \A j \in 0..(ClustersNeeded(L) - 1) : ChainNth(d, c, j) < 496

\* the L bytes of the chain from c, the data region starting at `region`
\* (the address of cluster 1)
ChainBytes(d, region, c, L) ==
    [n \in 1..L |->
        Mem(d, region + (ChainNth(d, c, (n - 1) \div 4096) - 1) * 4096
                      + ((n - 1) % 4096))]

FileBytes(name) ==
    LET m == {k \in 1..Len(files) : files[k].name = name} IN
    IF m = {} THEN << >> ELSE files[CHOOSE k \in m : TRUE].bytes

DownloadOf(f) == cmd.op = "download" /\ cmd.file = f

----------------------------------------------------------------------------
(* C1: get_memory(addr, len, data): the k-th read command (k = 0, 1, ..)   *)
(* carries address addr + 32k and length min(32, len - 32k), its response  *)
(* is stored at buffer offset 32k, and after the call data[0..len) is the  *)
(* device memory addr .. addr+len-1, for every len (multiple of 32 or not).*)
C1_ChunkedRead ==
    /\ pc = "gm_read" =>
          LET k == wire.k - 1 IN
          wire.last = << 2 >> \o ToLe32(gm.addr + 32 * k)
                              \o ToLe32(Min(32, gm.len - 32 * k))
    /\ wire.nReads > 0 => wire.off = 32 * (wire.nReads - 1)
    /\ pc = "done" =>
          Slice(bufs.data, 0, gm.len) = MemRange(dev, gm.addr, gm.len)

\* a 50-byte read has completed in two commands, the second one of 18 bytes
C1_Witness ==
    /\ pc = "done" /\ gm.len = 50
    /\ wire.nReads = 2
    /\ Slice(wire.last, 5, 9) = << 18, 0, 0, 0 >>
    /\ wire.off = 32

(* C6: get_memory issues exactly ceil(len/32) read-memory commands, and as *)
(* many bulk reads, for every len >= 0.                                    *)
C6_CeilCommands ==
    pc = "done" =>
        /\ wire.nWrites = (gm.len + 31) \div 32
        /\ wire.nReads = (gm.len + 31) \div 32

(* C2 (as claimed): a download of an entry with first cluster c and length *)
(* L whose chain has ceil(L/4096) clusters writes exactly L bytes, byte i  *)
(* being byte i mod 4096 of the (i div 4096)-th cluster of the chain, each *)
(* cluster read from pffs_top + directory size (96 slots of 32 bytes)      *)
(* + chain-table size (992) + (cluster-1)*4096.                            *)
C2_ChainBytesAfterDirectory ==
    \A f \in { NameA, NameB } :
        (DownloadOf(f) /\ pc = "done" /\ HasEntry(dev, f)
            /\ ChainCovers(dev, Target(dev, f).cluster, Target(dev, f).len))
        => FileBytes(f) = ChainBytes(dev, dev.top + 96 * 32 + 992,
                                     Target(dev, f).cluster, Target(dev, f).len)

(* C2 (amended): the same, each cluster being read from                    *)
(* pffs_top + 97*32 + 992 + (cluster-1)*4096 = pffs_top + 4096*cluster.    *)
C2_ChainBytes ==
    \A f \in { NameA, NameB } :
        (DownloadOf(f) /\ pc = "done" /\ HasEntry(dev, f)
            /\ ChainCovers(dev, Target(dev, f).cluster, Target(dev, f).len))
        => /\ FileBytes(f) = ChainBytes(dev, dev.top + 97 * 32 + 992,
                                        Target(dev, f).cluster, Target(dev, f).len)
           /\ \A j \in 1..Len(wire.clusters) :
                 wire.clusters[j] = dev.top + 97 * 32 + 992
                     + (ChainNth(dev, Target(dev, f).cluster, j - 1) - 1) * 4096

\* a 5000-byte file was downloaded from a two-cluster chain: 4096 bytes of
\* the first cluster, 904 of the next
C2_Witness ==
    /\ DownloadOf(NameA) /\ pc = "done"
    /\ Target(dev, NameA).len = 5000
    /\ Len(FileBytes(NameA)) = 5000
    /\ Len(wire.clusters) = 2
    /\ FileBytes(NameA)[4097] = Mem(dev, wire.clusters[2])

(* C3: the chain walk stops when the next value exceeds 0x8000 or when no  *)
(* bytes remain: for a file of length L > 0 no more than ceil(L/4096) data *)
(* clusters are read, whatever follows the last needed cluster.            *)
C3_NoClusterBeyondLength ==
    \A f \in { NameA, NameB } :
        (DownloadOf(f) /\ HasEntry(dev, f) /\ Target(dev, f).len > 0)
        => Len(wire.clusters) <= ClustersNeeded(Target(dev, f).len)

(* C4: a chain value > 0x8000 ends the chain: when chain[c] > 0x8000 the   *)
(* download reads exactly one data cluster, c, and writes its first        *)
(* min(length, 4096) bytes; a value <= 0x8000, 0x8000 included, is the     *)
(* index of the next cluster read.                                         *)
C4_SentinelEndsChain ==
    \A f \in { NameA, NameB } :
        (DownloadOf(f) /\ HasEntry(dev, f)) =>
            LET e    == Target(dev, f)
                next == FatVal(dev, e.cluster)
            IN  /\ next > 32768 =>
                      /\ Len(wire.clusters) <= 1
                      /\ pc = "done" =>
                            /\ wire.clusters = << dev.top + 4096 * e.cluster >>
                            /\ FileBytes(f) =
                                  MemRange(dev, dev.top + 4096 * e.cluster,
                                           Min(e.len, 4096))
                /\ next <= 32768 =>
                      /\ pc # "done" \/ Len(wire.clusters) >= 2
                      /\ Len(wire.clusters) >= 2 =>
                            wire.clusters[2] = dev.top + 4096 * next

\* A.TXT, length 10, chain[c] = 0x9000: one cluster read, 10 bytes written
C4_Witness ==
    /\ DownloadOf(NameA) /\ pc = "done"
    /\ Target(dev, NameA).len = 10
    /\ FatVal(dev, Target(dev, NameA).cluster) = 36864
    /\ Len(wire.clusters) = 1
    /\ Len(FileBytes(NameA)) = 10

(* C5 (as claimed): every command written is followed by exactly one       *)
(* response read before the next command is written; two writes never      *)
(* occur back to back.                                                     *)
C5_ReadAfterEveryWrite ==
    [][IsWrite(wire, wire') => wire.lastIO # "write"]_vars

(* C5 (amended): every command that has a response (identify, read memory, *)
(* query display) is followed by exactly one response read before the next *)
(* command is written; pause and resume have no response and are followed  *)
(* by no read, so a write follows a write only directly after pause or     *)
(* resume; no read happens without a request outstanding.                  *)
C5_OneOutstandingRequest ==
    [][ /\ IsWrite(wire, wire') =>
              (wire.lastIO = "write" => wire.last \in { << 16, 1 >>, << 16, 0 >> })
        /\ IsRead(wire, wire') =>
              (wire.lastIO = "write" /\ wire.last \notin { << 16, 1 >>, << 16, 0 >> })
      ]_vars

\* a screenshot has run to its end: pause, query, 88 rows of 4 reads, resume
C5_Witness ==
    /\ cmd.op = "screenshot" /\ pc = "done"
    /\ wire.nWrites = 1 + 3 + 88 * 4
    /\ wire.nReads = 1 + 1 + 88 * 4

(* C7: ls reads exactly the 95 slots i = 1..95 at pffs_top + 32*i (never   *)
(* slot 0), returns one entry for each slot whose first byte is neither    *)
(* 0x00 nor 0xFF and none for any other slot, in ascending slot order; the *)
(* result has at most 95 entries.                                          *)
C7_LsSlots ==
    /\ pc \in { "main_ls_print", "dl_find", "bk_take" } =>
          /\ wire.slots = [k \in 1..95 |-> dev.top + 32 * k]
          /\ directory = TrueDir(dev)
          /\ Len(directory) <= 95
    /\ (pc = "gm_read" /\ gm.data = "dirent_raw") =>
          /\ FromLe32(Slice(wire.last, 1, 5)) = dev.top + 32 * Len(wire.slots)
          /\ FromLe32(Slice(wire.last, 1, 5)) >= dev.top + 32
          /\ FromLe32(Slice(wire.last, 1, 5)) <= dev.top + 32 * 95
    /\ err = "utf8" =>
          \E k \in 1..Len(dev.ents) :
              /\ dev.ents[k].slot >= 1 /\ dev.ents[k].slot <= 95
              /\ dev.ents[k].name[1] # 0 /\ dev.ents[k].name[1] # 255
              /\ ~IsUtf8(PadName(dev.ents[k].name))

\* ls has returned from a directory that holds three entries in use and
\* two named slots whose first byte is 0x00 and 0xFF
C7_Witness ==
    /\ cmd.op = "ls" /\ pc = "main_ls_print"
    /\ Len(directory) = 3
    /\ \E k \in 1..Len(dev.ents) : dev.ents[k].name[1] = 0 /\ dev.ents[k].slot = 3
    /\ \E k \in 1..Len(dev.ents) : dev.ents[k].name[1] = 255 /\ dev.ents[k].slot = 4
    /\ directory[3].name = NameB

(* C8: download(filename) on a directory in which no entry's name equals   *)
(* filename exactly (case-sensitive) fails with the file-not-found error   *)
(* and reads no data cluster.                                              *)
C8_MissingFile ==
    (cmd.op = "download" /\ ~HasEntry(dev, cmd.file)) =>
        /\ pc \notin { "dl_loop", "dl_write", "done" }
        /\ err \in { "", "transport", "notfound" }
        /\ wire.clusters = << >>
        /\ files = << >>
        /\ pc \in { "gm_write", "gm_read" } => gm.data # "data"
        /\ wire.last # << >> /\ wire.last[1] = 2 =>
              FromLe32(Slice(wire.last, 1, 5)) < dev.top + 4096

\* "a.txt" was asked for, the directory holds "A.TXT": file not found
C8_Witness ==
    /\ cmd.op = "download" /\ cmd.file = NameLowerA
    /\ HasEntry(dev, NameA)
    /\ pc = "panic" /\ err = "notfound"

(* C9: capture_screen with descriptor width 128 and height 88 succeeds;    *)
(* with any other width or height it fails with the assertion failure      *)
(* before any read-memory command for the bitmap is issued.                *)
C9_SizeAssert ==
    cmd.op = "screenshot" =>
        /\ (dev.lcd.w = 128 /\ dev.lcd.h = 88) =>
              /\ err # "assert"
              /\ pc \in { "shot_row", "shot_print", "shot_resume", "done" } =>
                    shot.lcd_addr = dev.lcd.addr
              /\ pc = "done" => Len(wire.rows) = 88 /\ wire.resumes = 1
        /\ (dev.lcd.w # 128 \/ dev.lcd.h # 88) =>
              /\ pc \notin { "shot_row", "shot_print", "shot_resume", "done",
                             "gm_write", "gm_read" }
              /\ err \in { "", "transport", "assert" }
              /\ wire.rows = << >>
              /\ wire.last # << >> => wire.last[1] # 2
              /\ wire.nReads = 2 => err = "assert"

\* the descriptor said 128 x 87: the height assertion failed
C9_Witness ==
    /\ cmd.op = "screenshot"
    /\ dev.lcd.w = 128 /\ dev.lcd.h = 87
    /\ pc = "panic" /\ err = "assert"
    /\ wire.nReads = 2

(* C10: every capture_screen that has sent pause [0x10, 0x01] sends resume *)
(* [0x10, 0x00] on every exit path: normal completion, a failed            *)
(* width/height assertion, a transport failure in mid-capture.             *)
C10_ResumeOnEveryExit ==
    pc \in { "done", "panic" } => wire.resumes = wire.pauses

(* C11: a short read is fatal: when a bulk read returns fewer bytes than   *)
(* the response asked for (the chunk length, 32 for identify, 12 for the   *)
(* display descriptor) the operation aborts: no later command is written   *)
(* and nothing is produced from that response.                             *)
C11_ShortReadIsFatal ==
    wire.shorts > 0 => (pc = "panic" /\ err = "transport")

(* C12: backup is a serial loop over the ls result in directory order: the *)
(* commands of the download of entry k are all done before the download   *)
(* of entry k+1 starts, and when a write or read fails the run aborts:     *)
(* no retry, no command written afterwards, no later entry downloaded.     *)
C12_BackupSerialAbort ==
    /\ [](cmd.op = "backup" /\ bk.idx >= 1 =>
            /\ Len(stdout) = bk.idx - 1
            /\ \A j \in 1..Len(stdout) : stdout[j] = TrueDir(dev)[j].name
            /\ Len(files) <= Len(stdout)
            /\ \A j \in 1..Len(files) :
                  \E n \in 1..Len(stdout) : files[j].name = stdout[n]
            /\ pc = "bk_loop" => stack = << >>
            /\ (pc \notin { "bk_loop", "done", "panic" }) =>
                  /\ dl.filename = TrueDir(dev)[bk.idx - 1].name
                  /\ stack[Len(stack)] = "bk_loop"
                  /\ Cardinality({ n \in 1..Len(stack) : stack[n] = "bk_loop" }) = 1)
    /\ [][err # "" => UNCHANGED << wire, files, stdout, bk, pc >>]_vars

\* the first entry has been downloaded whole and the download of the second
\* one is being entered
C12_Witness ==
    /\ cmd.op = "backup" /\ pc = "dl_start"
    /\ bk.idx = 3
    /\ stdout = << NameA, NameC >>
    /\ Len(files) = 1 /\ files[1].name = NameA /\ Len(files[1].bytes) = 10

(* C13: every name that ls returns has no NUL character in it, wherever   *)
(* the NUL bytes sit in the 24-byte name field of the slot.                *)
C13_NoNulInName ==
    \A j \in 1..Len(directory) :
        \A n \in 1..Len(directory[j].name) : directory[j].name[n] # 0

(* C14: the handshake happens once, first: the first command written is   *)
(* identify [0x00, 0x20], pffs_top becomes the little-endian u32 of bytes  *)
(* 24..27 of its 32-byte response, and from then on, through ls, download, *)
(* every download of a backup and screenshot, pffs_top keeps that value    *)
(* and identify is never written again.                                    *)
C14_HandshakeOnce ==
    /\ wire.nWrites >= 1 => wire.identifies = 1
    /\ wire.nWrites = 1 => wire.last = << 0, 32 >>
    /\ wire.nReads = 0 => (pffs_top = 0 /\ wire.nWrites <= 1)
    /\ wire.nReads >= 1 =>
          /\ Len(Version(dev)) = 32
          /\ pffs_top = FromLe32(SubSeq(Version(dev), 25, 28))
          /\ pffs_top = dev.top

\* the second download of a backup is reading, hundreds of commands after the
\* handshake
C14_Witness ==
    /\ cmd.op = "backup" /\ bk.idx = 3 /\ pc = "gm_read"
    /\ wire.nWrites > 300
    /\ wire.identifies = 1
    /\ pffs_top = dev.top

\* the address in the read-memory command that was written last
LastAddr == FromLe32(Slice(wire.last, 1, 5))

(* C15: the regions download reads are contiguous from pffs_top: the       *)
(* 992-byte chain table is read from the first byte after the 96-slot      *)
(* directory (slots 0..95 of 32 bytes), data cluster 1 starts at the first *)
(* byte after the table; no gap, no overlap.                               *)
C15_ContiguousRegions ==
    wire.table # 0 =>
        /\ wire.table = dev.top + 96 * 32
        /\ \A k \in 1..Len(wire.slots) : wire.slots[k] + 32 <= wire.table
        /\ (Len(wire.slots) = 95) => wire.slots[95] + 32 = wire.table
        /\ \A j \in 1..Len(wire.heads) :
              wire.clusters[j] = wire.table + 992 + (wire.heads[j][1] - 1) * 4096

(* C15 (amended): the chain table is read from pffs_top + 97*32, which is  *)
(* 32 bytes after the end of the last slot ls reads (slot 95 ends at       *)
(* pffs_top + 96*32; neither ls nor download reads those 32 bytes); data   *)
(* cluster c is read from the first byte after the 992-byte table plus     *)
(* (c-1)*4096, so cluster 1 starts at pffs_top + 4096; no region overlaps  *)
(* another.                                                                *)
C15_RegionsWithGap ==
    wire.table # 0 =>
        /\ wire.table = dev.top + 97 * 32
        /\ (pc = "gm_read" /\ gm.data = "clusters_raw") =>
              /\ wire.k >= 1 /\ wire.k <= 31
              /\ LastAddr = wire.table + 32 * (wire.k - 1)
              /\ LastAddr + FromLe32(Slice(wire.last, 5, 9)) <= wire.table + 992
        /\ \A k \in 1..Len(wire.slots) : wire.slots[k] + 32 <= wire.table - 32
        /\ (Len(wire.slots) = 95) => wire.slots[95] + 32 = wire.table - 32
        /\ Len(wire.heads) = Len(wire.clusters)
        /\ \A j \in 1..Len(wire.heads) :
              /\ wire.clusters[j] = wire.table + 992 + (wire.heads[j][1] - 1) * 4096
              /\ wire.heads[j][1] = 1 => wire.clusters[j] = dev.top + 4096
              /\ wire.heads[j][1] >= 1 => wire.clusters[j] >= wire.table + 992
        /\ (pc = "gm_read" /\ gm.data = "data") =>
              /\ LastAddr = wire.clusters[Len(wire.clusters)] + 32 * (wire.k - 1)
              /\ wire.k <= 128

\* the table has been read, ls has read slot 95, and the first data cluster
\* being read is cluster 1
C15_Witness ==
    /\ cmd.op = "download" /\ pc = "gm_read" /\ gm.data = "data"
    /\ Len(wire.slots) = 95
    /\ wire.heads = << << 1, 10 >> >>
    /\ wire.clusters = << wire.table + 992 >>
    /\ wire.k = 128

(* C16: in a successful screenshot the wire order is: pause, query [0x11]  *)
(* with its 12-byte response, then for row 0..87 in ascending order the    *)
(* read-memory commands for base + row*128 .. + 127 as four 32-byte        *)
(* chunks, then resume; every framebuffer read lies after pause and        *)
(* before resume.                                                          *)
C16_ScreenshotOrder ==
    (cmd.op = "screenshot" /\ dev.lcd.w = 128 /\ dev.lcd.h = 88) =>
        /\ wire.nWrites = 2 => wire.last = << 16, 1 >>
        /\ wire.nWrites = 3 => wire.last = << 17 >>
        /\ wire.nWrites >= 2 => wire.pauses = 1
        /\ wire.nWrites = 2 => wire.rows = << >>
        /\ Len(LcdData(dev)) = 12
        /\ wire.rows # << >> => (wire.nReads >= 2 /\ wire.pauses = 1)
        /\ \A j \in 1..Len(wire.rows) : wire.rows[j] = dev.lcd.addr + (j - 1) * 128
        /\ Len(wire.rows) <= 88
        /\ (wire.last # << >> /\ wire.last[1] = 2) =>
              (wire.pauses = 1 /\ wire.resumes = 0)
        /\ pc = "gm_read" =>
              /\ wire.last[1] = 2
              /\ wire.k \in 1..4
              /\ wire.nWrites = 3 + 4 * (Len(wire.rows) - 1) + wire.k
              /\ LastAddr = wire.rows[Len(wire.rows)] + 32 * (wire.k - 1)
              /\ FromLe32(Slice(wire.last, 5, 9)) = 32
        /\ wire.resumes > 0 =>
              /\ wire.resumes = 1 /\ pc = "done"
              /\ wire.last = << 16, 0 >>
              /\ Len(wire.rows) = 88
              /\ wire.nWrites = 3 + 4 * 88 + 1
        /\ pc = "done" => wire.resumes = 1

\* a whole capture has run: 88 rows, 352 read-memory commands, resume sent
C16_Witness ==
    /\ cmd.op = "screenshot" /\ pc = "done"
    /\ Len(wire.rows) = 88
    /\ wire.rows[88] = dev.lcd.addr + 87 * 128
    /\ wire.nWrites = 356 /\ wire.nReads = 354
    /\ wire.last = << 16, 0 >>

\* the bytes of the dump buffer that get_memory has filled so far
DumpFilled == gm.len - gm.bytes_left

(* C17: dump asks for exactly 2,097,142 bytes from absolute address        *)
(* 0xc00000 in one get_memory call and writes a 2,097,152-byte file: its   *)
(* first 2,097,142 bytes are device memory 0xc00000 .. 0xc00000+2,097,141, *)
(* its last 10 bytes are zero; no read command covers an address at or     *)
(* beyond 0xc00000 + 2,097,142.                                            *)
C17_DumpOffByTen ==
    /\ pc \in { "gm_write", "gm_read", "dump_write", "done" } =>
          /\ gm.addr = 12582912 /\ gm.len = 2097142 /\ gm.data = "dump"
          /\ bufs.dump = MergeRuns(TakeRuns(<< MemRun(12582912, 2097142) >>, DumpFilled)
                                   \o << ZeroRun(2097152 - DumpFilled) >>)
          /\ wire.nWrites = 1 + wire.k
          /\ wire.k <= 65536
    /\ pc = "gm_read" =>
          /\ wire.last[1] = 2
          /\ LastAddr = 12582912 + 32 * (wire.k - 1)
          /\ LastAddr = 12582912 + DumpFilled
          /\ FromLe32(Slice(wire.last, 5, 9)) = (IF wire.k = 65536 THEN 22 ELSE 32)
          /\ LastAddr + FromLe32(Slice(wire.last, 5, 9)) <= 12582912 + 2097142
    /\ pc \in { "dump_write", "done" } =>
          /\ wire.k = 65536 /\ DumpFilled = 2097142
          /\ stack = << >>
    /\ pc = "done" =>
          /\ Len(files) = 1 /\ files[1].name = DumpName
          /\ files[1].bytes = << MemRun(12582912, 2097142), ZeroRun(10) >>
          /\ \A k \in { 0, 1, 4095, 135168, 2097141 } :
                ByteAt(dev, files[1].bytes, k) = Mem(dev, 12582912 + k)
          /\ \A k \in 2097142..2097151 : ByteAt(dev, files[1].bytes, k) = 0
          /\ Mem(dev, 12582912 + 2097142) # 0
    /\ pc # "done" => \A j \in 1..Len(files) : files[j].bytes = << >>

\* the dump has run to its end and dump.img is written
C17_Witness ==
    /\ cmd.op = "dump" /\ pc = "done"
    /\ wire.nWrites = 65537
    /\ Len(files) = 1
    /\ Len(files[1].bytes) = 2
    /\ files[1].bytes[2] = ZeroRun(10)

(* C18: download terminates for every chain table and every directory      *)
(* entry when the transport does not fail, also when the chain from the    *)
(* entry's first cluster never reaches a value > 0x8000. The loop of lines *)
(* 128-137 is a function of (cluster, data_left) alone, so it terminates   *)
(* only if it never stands at its head with a pair it has stood there with *)
(* before.                                                                 *)
C18_DownloadTerminates ==
    pc = "dl_loop" =>
        \A j \in 1..Len(wire.heads) : wire.heads[j] # << dl.cluster, dl.data_left >>

(* C19: every chain-table lookup of download is in bounds: for the entry's *)
(* first cluster and every next value <= 0x8000 the two bytes at 2*cluster *)
(* and 2*cluster+1 lie inside the 992-byte table; the walk never aborts on *)
(* an index out of range.                                                  *)
C19_LookupInBounds ==
    /\ err # "index"
    /\ pc = "dl_write" => dl.cluster * 2 + 2 <= Len(bufs.clusters_raw)

(* C20: backup downloads each listed entry's own content: the download it  *)
(* performs for entry e walks the chain from e.cluster and writes data     *)
(* bounded by e.len, also when two slots decode to the same name.          *)
C20_BackupOwnContent ==
    (cmd.op = "backup" /\ bk.idx >= 2 /\ pc # "dl_start" /\ wire.heads # << >>) =>
        LET e == bk.dir[bk.idx - 1] IN
        /\ wire.heads[1] = << e.cluster, e.len >>
        /\ wire.clusters[1] = ClusterAddr(dev.top, e.cluster)
        /\ pc = "bk_loop" => Len(FileBytes(e.name)) = e.len

====
